---- MODULE Spec2Model ----
(***************************************************************************)
(* FocusFire: the draft / finalize / thread state machine of DraftManager  *)
(* (packages/focusdoc-engine/draft-manager) over the git substrate.        *)
(*                                                                         *)
(* A commit identifier is a content hash, so a commit is modelled by its   *)
(* content: parent list, tree, message and committer timestamp.  The only  *)
(* tracked file is content.md, so a tree is the raw text of that file, a   *)
(* sequence of tokens (a line of text, "\n", the "---" delimiter).         *)
(***************************************************************************)
EXTENDS Integers, Sequences, FiniteSets, TLC

\* ------------------------------------------------------------------ bounds
MaxClock == 1       \* seconds the wall clock may advance
MaxDepth == 2       \* commits on main's first-parent chain
MaxCallers == 2     \* concurrent callers of ensureDraftReady
MaxTokens == 2      \* tokens of a markdown body given to stringifyDocument

Callers == 1..MaxCallers
Contents == {<<>>, <<"x">>}                  \* markdown bodies the editor saves
Messages == {"draft", "first"}               \* finalizeCommit messages
SnapshotContents == {<<"y">>}                \* texts another writer saves
SnapshotMessages == {"snapshot"}             \* messages another writer uses
ThreadNames == {"main", "draft", "feature"}
Undefined == <<>>                            \* an optional argument left out
NoMetadata == {Undefined}
DocContents == {<<"# Hello">>}               \* bodies saved with or without metadata
Metadatas == {Undefined, <<<<<<"title", "A">>>>>>}
DocMessages == {"first"}
DocThreads == {"main", "feature"}
DocumentIds == {<<"a", "/", "b">>, <<"a", "_", "b">>, <<"c">>}   \* ids, as characters

\* ------------------------------------------------------- program constants
DRAFT_BRANCH == "draft"
MAIN_BRANCH == "main"
DRAFT_MESSAGE == "draft"
INITIAL_MESSAGE == "Initial commit"
ConflictMessage == "Draft is out of date: main has new commits. Pull or merge before finalizing."

VARIABLES
    refs,           \* refs/heads: branch name -> commit
    draftReady,     \* DraftManager.#draftReady
    currentThread,  \* DraftManager.#currentThread
    initPromise,    \* initPromisesByDocumentId entry: none/pending/fulfilled/rejected
    bootstraps,     \* number of #doEnsureDraftReady runs started by this process
    pc,             \* each concurrent ensureDraftReady caller's position
    clock,          \* wall clock, in seconds
    last,           \* the last completed operation and its result
    head,           \* HEAD of the document's repository: the branch checked out
    inflight,       \* an updateDraft and a finalizeCommit called without awaiting
    instancesByDocumentId,      \* document id -> its controller's fields
    initPromisesByDocumentId,   \* document id -> state of its init promise
    stores          \* IndexedDB database name -> refs/heads of the repository in it

\* The variables above the last three are those of one document, the one most
\* properties are about; the last three are the registry of all documents.
libraryVars == <<instancesByDocumentId, initPromisesByDocumentId, stores>>

vars == <<refs, draftReady, currentThread, initPromise, bootstraps,
          pc, clock, last, head, inflight, libraryVars>>

\* ---------------------------------------------------------------- substrate
\* A commit object; parent is <<>> or <<oid>>, as in `parent: [mainOid]`.
Commit(parent, tree, message, ts) ==
    [parent |-> parent, tree |-> tree, message |-> message, timestamp |-> ts]

\* git.listBranches
listBranches(r) == DOMAIN r

\* git.writeRef(..., force: true) / git.branch: point a branch at a commit
writeRef(r, name, oid) == [n \in DOMAIN r \cup {name} |-> IF n = name THEN oid ELSE r[n]]

\* git.deleteBranch
deleteBranch(r, name) == [n \in DOMAIN r \ {name} |-> r[n]]

\* git.log: first-parent chain of a commit, newest first
RECURSIVE log(_)
log(oid) == <<oid>> \o (IF oid.parent = <<>> THEN <<>> ELSE log(oid.parent[1]))

Depth(oid) == Len(log(oid))

\* git.commit on a ref with an explicit parent list and tree
commitOn(r, name, parent, tree, message, now) ==
    writeRef(r, name, Commit(parent, tree, message, now))

\* every commit reachable from a branch
commits(r) == UNION {{log(r[n])[i] : i \in 1..Len(log(r[n]))} : n \in DOMAIN r}

\* the characters String.replace(/[^a-zA-Z0-9_-]/g, "_") keeps, of those in use
SafeCharacters == {"a", "b", "c", "_", "-"}

\* sanitizeStoreName
sanitizeStoreName(documentId) ==
    [i \in DOMAIN documentId |->
        IF documentId[i] \in SafeCharacters THEN documentId[i] ELSE "_"]

\* mutant: the database is named by the identifier itself
getIndexedDBNameRaw(documentId) == <<"focusdoc-">> \o documentId

\* getIndexedDBNameForDocument: `focusdoc-${sanitizeStoreName(documentId)}`
getIndexedDBNameForDocument(documentId) == <<"focusdoc-">> \o sanitizeStoreName(documentId)

\* the database GitRepository.initialize opens for a document
storeOf(documentId) == getIndexedDBNameForDocument(documentId)

StoreNames == {getIndexedDBNameForDocument(d) : d \in DocumentIds}
             \cup {getIndexedDBNameRaw(d) : d \in DocumentIds}

\* ----------------------------------------------------------------- markdown
\* A metadata object is the sequence of its <<key, value>> entries.
\* yaml.dump(metadata).trimEnd(): one "key: value" line per entry
RECURSIVE yamlDump(_)
yamlDump(metadata) ==
    IF metadata = <<>> THEN <<>>
    ELSE <<metadata[1][1] \o ": " \o metadata[1][2]>>
         \o (IF Len(metadata) = 1 THEN <<>> ELSE <<"\n">> \o yamlDump(Tail(metadata)))

\* stringifyDocument: "---\n<yaml>\n---\n\n<content>", "---\n---" for no entries
stringifyDocument(metadata, content) ==
    LET yamlBlock == yamlDump(metadata)
        frontmatter == IF yamlBlock # <<>>
                       THEN <<"---", "\n">> \o yamlBlock \o <<"\n", "---">>
                       ELSE <<"---", "\n", "---">>
    IN  frontmatter \o <<"\n", "\n">> \o content

MetadataKeys == {"title", "status"}
MetadataValues == {"A", "B"}

\* the YAML loader on the lines of a front-matter block
yamlLoad(block) ==
    LET lines == SelectSeq(block, LAMBDA t : t # "\n")
    IN  [i \in 1..Len(lines) |->
            CHOOSE e \in MetadataKeys \X MetadataValues :
                e[1] \o ": " \o e[2] = lines[i]]

\* parseDocument (gray-matter): a text that opens with "---" has a front-matter
\* block up to the next "\n---"; the content is what follows that delimiter,
\* less one leading newline
parseDocument(rawContent) ==
    IF rawContent = <<>> \/ Head(rawContent) # "---"
    THEN [metadata |-> <<>>, content |-> rawContent]
    ELSE LET str == Tail(rawContent)
             closes == {i \in 1..(Len(str) - 1) : str[i] = "\n" /\ str[i + 1] = "---"}
         IN  IF closes = {}
             THEN [metadata |-> yamlLoad(str), content |-> <<>>]
             ELSE LET closeIndex == CHOOSE i \in closes : \A j \in closes : i <= j
                      rest == SubSeq(str, closeIndex + 2, Len(str))
                  IN  [metadata |-> yamlLoad(SubSeq(str, 1, closeIndex - 1)),
                       content |-> IF rest # <<>> /\ Head(rest) = "\n"
                                   THEN Tail(rest) ELSE rest]

\* inputs of the serializer: bodies of a few tokens, objects of a few entries
BodyTokens == {"# Hello", "\n", "---"}

Bodies == UNION {[1..n -> BodyTokens] : n \in 0..MaxTokens}

MetadataObjects ==
    {<<>>}
    \cup {<<e>> : e \in MetadataKeys \X MetadataValues}
    \cup {m \in (MetadataKeys \X MetadataValues) \X (MetadataKeys \X MetadataValues) :
             m[1][1] # m[2][1]}

\* ------------------------------------------------------------ DraftManager
NoError == [name |-> "", message |-> ""]

Result(r, thread, outcome, ret, error) ==
    [refs |-> r, thread |-> thread, outcome |-> outcome, ret |-> ret, error |-> error]

\* #doEnsureDraftReady, first part: main has at least one commit
ensureMain(r, now) ==
    IF MAIN_BRANCH \in listBranches(r)
    THEN r
    ELSE commitOn(r, MAIN_BRANCH, <<>>, <<>>, INITIAL_MESSAGE, now)

\* mutant: an existing draft is taken as it is, stale or not
draftNeedsResetIfAbsent(r) == DRAFT_BRANCH \notin listBranches(r)

\* does the second part of #doEnsureDraftReady rewrite the draft ref?
draftNeedsReset(r) ==
    \/ DRAFT_BRANCH \notin listBranches(r)
    \/ r[DRAFT_BRANCH].parent # <<r[MAIN_BRANCH]>>

\* git.branch({ref: draft, object: mainOid}) / git.writeRef(draft, mainOid, force)
draftAtMain(r) == writeRef(r, DRAFT_BRANCH, r[MAIN_BRANCH])

\* mutant: the reset commit keeps the tree of the stale draft
doEnsureDraftReadyKeepTree(r, now) ==
    LET r1 == ensureMain(r, now)
        mainOid == r1[MAIN_BRANCH]
    IN  IF draftNeedsReset(r1)
        THEN commitOn(draftAtMain(r1), DRAFT_BRANCH, <<mainOid>>,
                      IF DRAFT_BRANCH \in listBranches(r1)
                      THEN r1[DRAFT_BRANCH].tree ELSE mainOid.tree,
                      DRAFT_MESSAGE, now)
        ELSE r1

\* #doEnsureDraftReady, whole: draft exists, one commit ahead of main
doEnsureDraftReady(r, now) ==
    LET r1 == ensureMain(r, now)
        mainOid == r1[MAIN_BRANCH]
    IN  IF draftNeedsReset(r1)
        THEN commitOn(draftAtMain(r1), DRAFT_BRANCH, <<mainOid>>, mainOid.tree,
                      DRAFT_MESSAGE, now)
        ELSE r1

\* the text updateDraft writes to content.md
contentToWrite(content, metadata) ==
    IF metadata # Undefined THEN stringifyDocument(metadata[1], content) ELSE content

\* mutant: the autosave commits on top of draft's head instead of amending it
updateDraftAppend(r, content, metadata, now) ==
    commitOn(r, DRAFT_BRANCH, <<r[DRAFT_BRANCH]>>, contentToWrite(content, metadata),
             DRAFT_MESSAGE, now)

\* mutant: the amended commit replaces the old one under every ref that held it
updateDraftMovesShared(r, content, metadata, now) ==
    [n \in DOMAIN r |->
        IF r[n] = r[DRAFT_BRANCH]
        THEN Commit(r[DRAFT_BRANCH].parent, contentToWrite(content, metadata),
                    DRAFT_MESSAGE, now)
        ELSE r[n]]

\* updateDraft after the readiness gate: amend the commit at draft's head
updateDraft(r, content, metadata, now) ==
    commitOn(r, DRAFT_BRANCH, r[DRAFT_BRANCH].parent, contentToWrite(content, metadata),
             DRAFT_MESSAGE, now)

\* mutant: the squash commit takes main's tree instead of draft's
finalizeCommitMainTree(r, thread, message, now) ==
    LET mainOid == r[MAIN_BRANCH]
        draftOid == r[DRAFT_BRANCH]
        newOid == Commit(<<mainOid>>, mainOid.tree, message, now)
    IN  IF draftOid.parent # <<mainOid>>
        THEN Result(r, thread, "Conflict", <<>>,
                    [name |-> "DraftConflictError", message |-> ConflictMessage])
        ELSE Result(writeRef(writeRef(r, MAIN_BRANCH, newOid), DRAFT_BRANCH, newOid),
                    thread, "ok", <<newOid>>, NoError)

\* mutant: no staleness guard, the squash commit is always made
finalizeCommitNoGuard(r, thread, message, now) ==
    LET mainOid == r[MAIN_BRANCH]
        draftOid == r[DRAFT_BRANCH]
        newOid == Commit(<<mainOid>>, draftOid.tree, message, now)
    IN  Result(writeRef(writeRef(r, MAIN_BRANCH, newOid), DRAFT_BRANCH, newOid),
               thread, "ok", <<newOid>>, NoError)

\* mutant: the squash commit replaces main's head instead of following it
finalizeCommitAmendMain(r, thread, message, now) ==
    LET mainOid == r[MAIN_BRANCH]
        draftOid == r[DRAFT_BRANCH]
        newOid == Commit(mainOid.parent, draftOid.tree, message, now)
    IN  IF draftOid.parent # <<mainOid>>
        THEN Result(r, thread, "Conflict", <<>>,
                    [name |-> "DraftConflictError", message |-> ConflictMessage])
        ELSE Result(writeRef(writeRef(r, MAIN_BRANCH, newOid), DRAFT_BRANCH, newOid),
                    thread, "ok", <<newOid>>, NoError)

\* mutant: main moves to the squash commit, draft stays where it was
finalizeCommitKeepDraft(r, thread, message, now) ==
    LET mainOid == r[MAIN_BRANCH]
        draftOid == r[DRAFT_BRANCH]
        newOid == Commit(<<mainOid>>, draftOid.tree, message, now)
    IN  IF draftOid.parent # <<mainOid>>
        THEN Result(r, thread, "Conflict", <<>>,
                    [name |-> "DraftConflictError", message |-> ConflictMessage])
        ELSE Result(writeRef(r, MAIN_BRANCH, newOid), thread, "ok", <<newOid>>, NoError)

\* finalizeCommit after the readiness gate
finalizeCommit(r, thread, message, now) ==
    LET mainOid == r[MAIN_BRANCH]
        draftOid == r[DRAFT_BRANCH]
        newOid == Commit(<<mainOid>>, draftOid.tree, message, now)
    IN  IF draftOid.parent # <<mainOid>>
        THEN Result(r, thread, "Conflict", <<>>,
                    [name |-> "DraftConflictError", message |-> ConflictMessage])
        ELSE Result(writeRef(writeRef(r, MAIN_BRANCH, newOid), DRAFT_BRANCH, newOid),
                    thread, "ok", <<newOid>>, NoError)

\* mutant: the branch is created with force, over an existing one
createThreadForce(r, thread, name) ==
    Result(writeRef(r, name, r[DRAFT_BRANCH]), thread, "ok", <<>>, NoError)

\* mutant: the new thread becomes the selected one
createThreadAndSelect(r, thread, name) ==
    IF name \in listBranches(r)
    THEN Result(r, thread, "AlreadyExists", <<>>,
                [name |-> "Error", message |-> <<"Thread already exists: ", name>>])
    ELSE Result(writeRef(r, name, r[DRAFT_BRANCH]), name, "ok", <<>>, NoError)

\* createThread after the readiness gate
createThread(r, thread, name) ==
    IF name \in listBranches(r)
    THEN Result(r, thread, "AlreadyExists", <<>>,
                [name |-> "Error", message |-> <<"Thread already exists: ", name>>])
    ELSE Result(writeRef(r, name, r[DRAFT_BRANCH]), thread, "ok", <<>>, NoError)

\* mutant: the selection moves before the branch is looked up
switchThreadSelectFirst(r, thread, name) ==
    IF name \notin listBranches(r)
    THEN Result(r, name, "NotFound", <<>>,
                [name |-> "Error", message |-> <<"Thread not found: ", name>>])
    ELSE Result(writeRef(r, DRAFT_BRANCH, r[name]), name, "ok", <<>>, NoError)

\* mutant: the selection moves but draft keeps the previous thread's edits
switchThreadKeepDraft(r, thread, name) ==
    IF name \notin listBranches(r)
    THEN Result(r, thread, "NotFound", <<>>,
                [name |-> "Error", message |-> <<"Thread not found: ", name>>])
    ELSE Result(r, name, "ok", <<>>, NoError)

\* mutant: the thread's ref is moved to draft's head, not draft to the thread's
switchThreadMovesThread(r, thread, name) ==
    IF name \notin listBranches(r)
    THEN Result(r, thread, "NotFound", <<>>,
                [name |-> "Error", message |-> <<"Thread not found: ", name>>])
    ELSE Result(writeRef(r, name, r[DRAFT_BRANCH]), name, "ok", <<>>, NoError)

\* switchThread after the readiness gate
switchThread(r, thread, name) ==
    IF name \notin listBranches(r)
    THEN Result(r, thread, "NotFound", <<>>,
                [name |-> "Error", message |-> <<"Thread not found: ", name>>])
    ELSE Result(writeRef(r, DRAFT_BRANCH, r[name]), name, "ok", <<>>, NoError)

\* mutant: the selection falls back to main but draft is not repointed
deleteThreadKeepDraft(r, thread, name) ==
    IF name \notin listBranches(r)
    THEN Result(r, thread, "ok", <<>>, NoError)
    ELSE Result(deleteBranch(r, name), IF thread = name THEN MAIN_BRANCH ELSE thread,
                "ok", <<>>, NoError)

\* mutant: every deletion selects main and repoints draft to main's head
deleteThreadAlwaysRepoint(r, thread, name) ==
    IF name \notin listBranches(r)
    THEN Result(r, thread, "ok", <<>>, NoError)
    ELSE LET r1 == deleteBranch(r, name)
         IN  IF MAIN_BRANCH \in DOMAIN r1
             THEN Result(writeRef(r1, DRAFT_BRANCH, r1[MAIN_BRANCH]),
                         MAIN_BRANCH, "ok", <<>>, NoError)
             ELSE Result(r1, MAIN_BRANCH, "ok", <<>>, NoError)

\* deleteThread after the protected-name check and the readiness gate
deleteThread(r, thread, name) ==
    IF name \notin listBranches(r)
    THEN Result(r, thread, "ok", <<>>, NoError)
    ELSE LET r1 == deleteBranch(r, name)
         IN  IF thread # name
             THEN Result(r1, thread, "ok", <<>>, NoError)
             ELSE IF MAIN_BRANCH \in DOMAIN r1
                  THEN Result(writeRef(r1, DRAFT_BRANCH, r1[MAIN_BRANCH]),
                              MAIN_BRANCH, "ok", <<>>, NoError)
                  ELSE Result(r1, MAIN_BRANCH, "ok", <<>>, NoError)

\* the branch getHistory and loadDocument read: main, or the selected thread
baseRef(thread) == IF thread = "main" THEN MAIN_BRANCH ELSE thread

\* getHistory after the readiness gate
getHistory(r, thread) ==
    IF baseRef(thread) \notin listBranches(r)
    THEN <<>>
    ELSE LET entries == log(r[baseRef(thread)])
             kept == SelectSeq(entries, LAMBDA e : e.message # "draft")
         IN  [i \in 1..Len(kept) |->
                 [sha |-> kept[i], message |-> kept[i].message,
                  timestamp |-> kept[i].timestamp * 1000, author |-> "FocusDoc"]]

\* what loadDocument makes of the tracked file of a commit
EmptyDocument == [content |-> <<>>, metadata |-> <<>>]

readDocument(oid) ==
    IF oid.tree # <<>>
    THEN [content |-> parseDocument(oid.tree).content,
          metadata |-> parseDocument(oid.tree).metadata]
    ELSE EmptyDocument

\* mutant: the draft is preferred only when strictly newer than the base
loadDocumentStrictlyNewer(r, thread) ==
    LET hasBase == baseRef(thread) \in listBranches(r)
        baseTimestamp == IF hasBase THEN r[baseRef(thread)].timestamp ELSE 0
        baseResult == IF hasBase THEN readDocument(r[baseRef(thread)]) ELSE EmptyDocument
        hasDraft == DRAFT_BRANCH \in listBranches(r)
        draftTimestamp == IF hasDraft THEN r[DRAFT_BRANCH].timestamp ELSE 0
    IN  IF hasDraft /\ draftTimestamp > baseTimestamp
        THEN readDocument(r[DRAFT_BRANCH])
        ELSE baseResult

\* loadDocument after the readiness gate
loadDocument(r, thread) ==
    LET hasBase == baseRef(thread) \in listBranches(r)
        baseTimestamp == IF hasBase THEN r[baseRef(thread)].timestamp ELSE 0
        baseResult == IF hasBase THEN readDocument(r[baseRef(thread)]) ELSE EmptyDocument
        hasDraft == DRAFT_BRANCH \in listBranches(r)
        draftTimestamp == IF hasDraft THEN r[DRAFT_BRANCH].timestamp ELSE 0
    IN  IF hasDraft /\ draftTimestamp >= baseTimestamp
        THEN readDocument(r[DRAFT_BRANCH])
        ELSE baseResult

\* getRefs after the readiness gate: resolveRef(main) is not guarded
getRefs(r, thread) ==
    IF MAIN_BRANCH \notin listBranches(r)
    THEN Result(r, thread, "NotFoundError", <<>>,
                [name |-> "NotFoundError", message |-> <<"Could not find ", "refs/heads/main">>])
    ELSE Result(r, thread, "ok",
                <<[branches |-> listBranches(r), main |-> r[MAIN_BRANCH],
                   draft |-> IF DRAFT_BRANCH \in listBranches(r)
                             THEN <<r[DRAFT_BRANCH]>> ELSE Undefined]>>,
                NoError)

\* GitRepository.saveSnapshot: a commit on main built from the written file
saveSnapshot(r, content, message, now) ==
    commitOn(r, MAIN_BRANCH,
             IF MAIN_BRANCH \in listBranches(r) THEN <<r[MAIN_BRANCH]>> ELSE <<>>,
             content, message, now)

\* ------------------------------------------------------------------ actions
Last(op, arg, outcome, ret, error) ==
    [op |-> op, arg |-> arg, outcome |-> outcome, ret |-> ret, error |-> error]

InitError == [name |-> "Error", message |-> "storage failure"]

\* mutant: no fast path, a call on a Ready session runs the bootstrap again
gateAlways(r, now) == doEnsureDraftReady(r, now)

\* A serialized operation passes `await this.ensureDraftReady()`: a Ready session
\* goes on at once, a fresh one runs the bootstrap first.
gate(r, now) == IF draftReady THEN r ELSE doEnsureDraftReady(r, now)

\* The second a commit is stamped with is an input of the operation that writes
\* it: any second from the last one seen on. Time is seen only in timestamps,
\* so the clock moves with the operations that write.
Seconds == clock..MaxClock

\* the operations that end with git.checkout of draft when they succeed; the
\* bootstrap checks draft out on every path
checksOutDraft(op, outcome) ==
    op \in {"finalizeCommit", "switchThread"} /\ outcome = "ok"

\* HEAD after a bootstrap that dies at the given stage
partialCheckout(h, stage) == IF stage = "draftRef" THEN DRAFT_BRANCH ELSE h

\* the operation ran to its end (with a result or a thrown error of its own)
Settle(res, op, arg, now) ==
    /\ refs' = res.refs
    /\ currentThread' = res.thread
    /\ draftReady' = TRUE
    /\ initPromise' = "fulfilled"
    /\ bootstraps' = IF initPromise = "none" THEN bootstraps + 1 ELSE bootstraps
    /\ clock' = IF res.refs = refs THEN clock ELSE now
    /\ last' = Last(op, arg, res.outcome, res.ret, res.error)
    /\ head' = IF ~draftReady \/ checksOutDraft(op, res.outcome)
               THEN DRAFT_BRANCH ELSE head
    /\ UNCHANGED pc
    /\ UNCHANGED libraryVars
    /\ UNCHANGED inflight

\* the operation failed before its first substrate access
Reject(op, arg, outcome, error) ==
    /\ last' = Last(op, arg, outcome, <<>>, error)
    /\ UNCHANGED <<refs, draftReady, currentThread, initPromise, bootstraps, pc, clock>>
    /\ UNCHANGED libraryVars
    /\ UNCHANGED inflight
    /\ UNCHANGED head

\* mutant: a rejected init promise is dropped and the bootstrap is run again
SerializedRetry(op, arg, res, now) ==
    /\ initPromise # "pending"
    /\ Settle(res, op, arg, now)

\* a serialized operation: the memoized init promise is not pending when it starts
Serialized(op, arg, res, now) ==
    /\ initPromise # "pending"
    /\ IF initPromise = "rejected"
       THEN Reject(op, arg, "InitFailed", InitError)
       ELSE Settle(res, op, arg, now)

MainDepth(r) == IF MAIN_BRANCH \in DOMAIN r THEN Depth(r[MAIN_BRANCH]) ELSE 0

\* last.arg tells whether the call found the session Ready or ran the bootstrap
EnsureDraftReady(now) ==
    /\ now \in Seconds
    /\ Serialized("ensureDraftReady", IF draftReady THEN "ready" ELSE "bootstrap",
                  Result(gate(refs, now), currentThread, "ok", <<>>, NoError), now)

UpdateDraft(content, metadata, now) ==
    /\ now \in Seconds
    /\ Serialized("updateDraft", <<content, metadata>>,
                  Result(updateDraft(gate(refs, now), content, metadata, now),
                         currentThread, "ok", <<>>, NoError), now)

FinalizeCommit(message, now) ==
    /\ now \in Seconds
    /\ initPromise # "rejected" =>
          (finalizeCommit(gate(refs, now), currentThread, message, now).outcome = "ok"
              => MainDepth(gate(refs, now)) < MaxDepth)
    /\ Serialized("finalizeCommit", message,
                  finalizeCommit(gate(refs, now), currentThread, message, now), now)

GetHistory(now) ==
    /\ now \in Seconds
    /\ Serialized("getHistory", "",
                  Result(gate(refs, now), currentThread, "ok", <<>>, NoError), now)

LoadDocument(now) ==
    /\ now \in Seconds
    /\ Serialized("loadDocument", "",
                  Result(gate(refs, now), currentThread, "ok",
                         <<loadDocument(gate(refs, now), currentThread)>>, NoError), now)

GetRefs(now) ==
    /\ now \in Seconds
    /\ Serialized("getRefs", "", getRefs(gate(refs, now), currentThread), now)

CreateThread(name, now) ==
    /\ now \in Seconds
    /\ Serialized("createThread", name,
                  createThread(gate(refs, now), currentThread, name), now)

SwitchThread(name, now) ==
    /\ now \in Seconds
    /\ Serialized("switchThread", name,
                  switchThread(gate(refs, now), currentThread, name), now)

\* mutant: the protected-name check comes after the readiness gate
DeleteThreadGateFirst(name, now) ==
    /\ now \in Seconds
    /\ Serialized("deleteThread", name,
                  IF name = "main" \/ name = DRAFT_BRANCH
                  THEN Result(gate(refs, now), currentThread, "ProtectedThread", <<>>,
                              [name |-> "Error",
                               message |-> <<"Cannot delete protected thread: ", name>>])
                  ELSE deleteThread(gate(refs, now), currentThread, name), now)

\* mutant: no name is protected from deletion
DeleteThreadUnprotected(name, now) ==
    /\ now \in Seconds
    /\ Serialized("deleteThread", name,
                  deleteThread(gate(refs, now), currentThread, name), now)

DeleteThread(name, now) ==
    /\ now \in Seconds
    /\ IF name = "main" \/ name = DRAFT_BRANCH
       THEN Reject("deleteThread", name, "ProtectedThread",
                   [name |-> "Error",
                    message |-> <<"Cannot delete protected thread: ", name>>])
       ELSE Serialized("deleteThread", name,
                       deleteThread(gate(refs, now), currentThread, name), now)

\* what a bootstrap that dies of a storage failure has written by then
partialBootstrap(r, now, stage) ==
    CASE stage = "initialize" -> r
      [] stage = "main" -> ensureMain(r, now)
      [] stage = "draftRef" ->
            IF draftNeedsReset(ensureMain(r, now))
            THEN draftAtMain(ensureMain(r, now))
            ELSE ensureMain(r, now)

BootstrapStages == {"initialize", "main", "draftRef"}

\* a first ensureDraftReady whose bootstrap dies of a storage failure
EnsureDraftReadyFails(stage, now) ==
    /\ now \in Seconds
    /\ initPromise = "none"
    /\ refs' = partialBootstrap(refs, now, stage)
    /\ clock' = IF refs' = refs THEN clock ELSE now
    /\ initPromise' = "rejected"
    /\ bootstraps' = bootstraps + 1
    /\ last' = Last("ensureDraftReady", stage, "InitFailed", <<>>, InitError)
    /\ head' = partialCheckout(head, stage)
    /\ UNCHANGED <<draftReady, currentThread, pc>>
    /\ UNCHANGED libraryVars
    /\ UNCHANGED inflight

\* another writer (GitRepository.saveSnapshot on the same store) commits on main
SaveSnapshot(content, message, now) ==
    /\ now \in Seconds
    /\ initPromise # "pending"
    /\ MainDepth(refs) < MaxDepth
    /\ refs' = saveSnapshot(refs, content, message, now)
    /\ clock' = now
    /\ last' = Last("saveSnapshot", message, "ok", <<>>, NoError)
    /\ UNCHANGED <<draftReady, currentThread, initPromise, bootstraps, pc>>
    /\ UNCHANGED libraryVars
    /\ UNCHANGED inflight
    /\ UNCHANGED head

\* no un-awaited call is in flight; locals are empty or one-element tuples
Idle ==
    [updateDraft |-> "idle", finalizeCommit |-> "idle", content |-> <<>>, message |-> "",
     index |-> <<>>, mainOid |-> <<>>, draftCommit |-> <<>>, newOid |-> <<>>]

\* the process ends and a new one starts over the persisted repository
Restart ==
    /\ initPromise # "pending"
    /\ draftReady' = FALSE
    /\ currentThread' = "main"
    /\ initPromise' = "none"
    /\ bootstraps' = 0
    /\ pc' = [p \in Callers |-> "idle"]
    /\ last' = Last("restart", "", "ok", <<>>, NoError)
    /\ UNCHANGED <<refs, clock>>
    /\ UNCHANGED libraryVars
    /\ UNCHANGED inflight
    /\ UNCHANGED head

Init ==
    /\ refs = <<>>
    /\ draftReady = FALSE
    /\ currentThread = "main"
    /\ initPromise = "none"
    /\ bootstraps = 0
    /\ pc = [p \in Callers |-> "idle"]
    /\ clock = 0
    /\ last = Last("init", "", "ok", <<>>, NoError)
    /\ head = MAIN_BRANCH
    /\ inflight = Idle
    /\ instancesByDocumentId = <<>>
    /\ initPromisesByDocumentId = <<>>
    /\ stores = [n \in StoreNames |-> <<>>]

Next ==
    \/ \E now \in Seconds : EnsureDraftReady(now)
    \/ \E content \in Contents, metadata \in NoMetadata, now \in Seconds :
          UpdateDraft(content, metadata, now)
    \/ \E message \in Messages, now \in Seconds : FinalizeCommit(message, now)
    \/ \E now \in Seconds : GetHistory(now)
    \/ \E name \in ThreadNames, now \in Seconds : CreateThread(name, now)
    \/ \E name \in ThreadNames, now \in Seconds : SwitchThread(name, now)
    \/ \E name \in ThreadNames, now \in Seconds : DeleteThread(name, now)
    \/ Restart

\* serialized controller operations over a persistent repository
Spec == Init /\ [][Next]_vars

\* the same, with another writer committing on main out-of-band
NextEnv ==
    \/ Next
    \/ \E content \in SnapshotContents, message \in SnapshotMessages, now \in Seconds :
          SaveSnapshot(content, message, now)

SpecEnv == Init /\ [][NextEnv]_vars

\* the same, with a storage failure during the bootstrap
NextFault ==
    \/ Next
    \/ \E stage \in BootstrapStages, now \in Seconds : EnsureDraftReadyFails(stage, now)

SpecFault == Init /\ [][NextFault]_vars

\* the document operations: autosave with metadata, load, history, threads
NextDoc ==
    \/ \E now \in Seconds : EnsureDraftReady(now)
    \/ \E content \in DocContents, metadata \in Metadatas, now \in Seconds :
          UpdateDraft(content, metadata, now)
    \/ \E message \in DocMessages, now \in Seconds : FinalizeCommit(message, now)
    \/ \E now \in Seconds : GetHistory(now)
    \/ \E now \in Seconds : LoadDocument(now)
    \/ \E now \in Seconds : GetRefs(now)
    \/ \E name \in DocThreads, now \in Seconds : CreateThread(name, now)
    \/ \E name \in DocThreads, now \in Seconds : SwitchThread(name, now)
    \/ \E name \in DocThreads, now \in Seconds : DeleteThread(name, now)
    \/ Restart

SpecDoc == Init /\ [][NextDoc]_vars

\* ------------------------------------- the order of the substrate calls
\* What an operation does to the draft ref and to HEAD, in program order:
\* "writeRef" is a forced write of refs/heads/draft (git.writeRef with force,
\* or the ref written by git.branch), "checkout" a checkout of draft
\* (git.checkout, or the HEAD update of git.branch with checkout: true),
\* "commit" a git.commit, "flush" an awaited fs.promises.flush().
bootstrapCalls(r) ==
    IF DRAFT_BRANCH \notin listBranches(r)
    THEN <<"writeRef", "checkout", "commit", "flush">>
    ELSE IF r[DRAFT_BRANCH].parent # <<r[MAIN_BRANCH]>>
         THEN <<"checkout", "writeRef", "flush", "checkout", "commit", "flush">>
         ELSE <<"checkout">>

finalizeCommitCalls(outcome) ==
    IF outcome = "ok" THEN <<"commit", "writeRef", "flush", "checkout">> ELSE <<>>

switchThreadCalls(outcome) ==
    IF outcome = "ok" THEN <<"writeRef", "flush", "checkout">> ELSE <<>>

\* getThreads / listThreads after the readiness gate: every branch name
getThreads(r) == listBranches(r)

GetThreads(now) ==
    /\ now \in Seconds
    /\ Serialized("getThreads", "",
                  Result(gate(refs, now), currentThread, "ok",
                         <<getThreads(gate(refs, now))>>, NoError), now)

\* GitRepository.#fs is set by initialize(), which #doEnsureDraftReady calls
\* first: it is set once this process has started a bootstrap
fsInitialized == initPromise # "none"

NotInitializedError ==
    [name |-> "Error",
     message |-> "GitRepository not initialized; call initialize() first."]

\* DraftManager.getFsAndDir: synchronous, straight to GitRepository.getFsAndDir
GetFsAndDir ==
    /\ initPromise # "pending"
    /\ last' = IF fsInitialized
               THEN Last("getFsAndDir", "", "ok", <<>>, NoError)
               ELSE Last("getFsAndDir", "", "NotInitialized", <<>>, NotInitializedError)
    /\ UNCHANGED <<refs, draftReady, currentThread, initPromise, bootstraps, pc, clock>>
    /\ UNCHANGED libraryVars
    /\ UNCHANGED inflight
    /\ UNCHANGED head

\* every public operation of the controller
NextApi ==
    \/ Next
    \/ \E now \in Seconds : LoadDocument(now)
    \/ \E now \in Seconds : GetRefs(now)
    \/ \E now \in Seconds : GetThreads(now)
    \/ GetFsAndDir

SpecApi == Init /\ [][NextApi]_vars

\* one editing session after another: autosaves, finalizes and loads, with
\* restarts, and nothing else writing to the repository
NextSession ==
    \/ \E now \in Seconds : EnsureDraftReady(now)
    \/ \E content \in Contents, metadata \in NoMetadata, now \in Seconds :
          UpdateDraft(content, metadata, now)
    \/ \E message \in Messages, now \in Seconds : FinalizeCommit(message, now)
    \/ \E now \in Seconds : LoadDocument(now)
    \/ Restart

SpecSession == Init /\ [][NextSession]_vars

\* ---------------------------------- the read operations on any repository
\* A Ready session reads a repository that other writers share: they commit on
\* main and delete branches, so any of main, draft and the selected thread may
\* be missing and the base may be newer than the draft.
Texts == {<<>>} \cup {contentToWrite(c, m) : c \in DocContents, m \in Metadatas}

InitialCommit == Commit(<<>>, <<>>, INITIAL_MESSAGE, 0)

BaseCommits ==
    {InitialCommit}
    \cup {Commit(<<InitialCommit>>, t, m, ts) : t \in Texts, m \in DocMessages, ts \in 0..MaxClock}

DraftCommits ==
    {Commit(<<InitialCommit>>, t, DRAFT_MESSAGE, ts) : t \in Texts, ts \in 0..MaxClock}

Repositories ==
    UNION {{[n \in present |->
                CASE n = MAIN_BRANCH -> m
                  [] n = DRAFT_BRANCH -> d
                  [] OTHER -> f] :
              m \in BaseCommits, d \in DraftCommits, f \in BaseCommits} :
           present \in SUBSET {MAIN_BRANCH, DRAFT_BRANCH, "feature"}}

InitLoad ==
    /\ refs \in Repositories
    /\ draftReady = TRUE
    /\ currentThread \in DocThreads
    /\ initPromise = "fulfilled"
    /\ bootstraps = 1
    /\ pc = [p \in Callers |-> "idle"]
    /\ clock = MaxClock
    /\ last = Last("init", "", "ok", <<>>, NoError)
    /\ head = DRAFT_BRANCH
    /\ inflight = Idle
    /\ instancesByDocumentId = <<>>
    /\ initPromisesByDocumentId = <<>>
    /\ stores = [n \in StoreNames |-> <<>>]

NextLoad ==
    \/ \E now \in Seconds : LoadDocument(now)
    \/ \E now \in Seconds : GetHistory(now)
    \/ \E now \in Seconds : GetRefs(now)

SpecLoad == InitLoad /\ [][NextLoad]_vars

\* ------------------------------------------------- the markdown serializer
StringifyDocument(metadata, content) ==
    /\ last' = Last("stringifyDocument", <<metadata, content>>, "ok",
                    <<stringifyDocument(metadata, content)>>, NoError)
    /\ UNCHANGED <<refs, draftReady, currentThread, initPromise, bootstraps, pc, clock>>
    /\ UNCHANGED libraryVars
    /\ UNCHANGED inflight
    /\ UNCHANGED head

\* parseDocument applied to the text stringifyDocument has just returned
ParseDocument ==
    /\ last.op = "stringifyDocument"
    /\ last' = Last("parseDocument", last.arg, "ok",
                    <<parseDocument(last.ret[1])>>, NoError)
    /\ UNCHANGED <<refs, draftReady, currentThread, initPromise, bootstraps, pc, clock>>
    /\ UNCHANGED libraryVars
    /\ UNCHANGED inflight
    /\ UNCHANGED head

NextMarkdown ==
    \/ \E metadata \in MetadataObjects, content \in Bodies :
          StringifyDocument(metadata, content)
    \/ ParseDocument

SpecMarkdown == Init /\ [][NextMarkdown]_vars

\* ------------------------------------------------- several documents at once
\* DraftManager.getInstance: the controller of a document, created on first use
GetInstance(documentId) ==
    /\ documentId \in DocumentIds
    /\ instancesByDocumentId' =
          IF documentId \in DOMAIN instancesByDocumentId
          THEN instancesByDocumentId
          ELSE writeRef(instancesByDocumentId, documentId,
                        [documentId |-> documentId, draftReady |-> FALSE,
                         currentThread |-> "main"])
    /\ last' = Last("getInstance", <<documentId>>, "ok",
                    <<[controller |-> instancesByDocumentId'[documentId].documentId]>>,
                    NoError)
    /\ UNCHANGED <<refs, draftReady, currentThread, initPromise, bootstraps, pc, clock,
                   head, inflight, initPromisesByDocumentId, stores>>

\* the repository a document's operation works on once past its readiness gate
docGate(documentId, now) ==
    IF instancesByDocumentId[documentId].draftReady
    THEN stores[storeOf(documentId)]
    ELSE doEnsureDraftReady(stores[storeOf(documentId)], now)

\* an operation of the controller of one document, run to its end
DocSettle(documentId, res, op, arg, now) ==
    /\ stores' = [stores EXCEPT ![storeOf(documentId)] = res.refs]
    /\ instancesByDocumentId' =
          [instancesByDocumentId EXCEPT ![documentId] =
              [documentId |-> documentId, draftReady |-> TRUE, currentThread |-> res.thread]]
    /\ initPromisesByDocumentId' =
          IF instancesByDocumentId[documentId].draftReady
          THEN initPromisesByDocumentId
          ELSE writeRef(initPromisesByDocumentId, documentId, "fulfilled")
    /\ clock' = IF stores' = stores THEN clock ELSE now
    /\ last' = Last(op, <<documentId, arg>>, res.outcome, res.ret, res.error)
    /\ UNCHANGED <<refs, draftReady, currentThread, initPromise, bootstraps, pc, head,
                   inflight>>

DocEnsureDraftReady(documentId, now) ==
    /\ documentId \in DOMAIN instancesByDocumentId
    /\ now \in Seconds
    /\ DocSettle(documentId,
                 Result(docGate(documentId, now),
                        instancesByDocumentId[documentId].currentThread, "ok", <<>>, NoError),
                 "ensureDraftReady", "", now)

DocUpdateDraft(documentId, content, metadata, now) ==
    /\ documentId \in DOMAIN instancesByDocumentId
    /\ now \in Seconds
    /\ DocSettle(documentId,
                 Result(updateDraft(docGate(documentId, now), content, metadata, now),
                        instancesByDocumentId[documentId].currentThread, "ok", <<>>, NoError),
                 "updateDraft", <<content, metadata>>, now)

DocFinalizeCommit(documentId, message, now) ==
    /\ documentId \in DOMAIN instancesByDocumentId
    /\ now \in Seconds
    /\ finalizeCommit(docGate(documentId, now),
                      instancesByDocumentId[documentId].currentThread,
                      message, now).outcome = "ok"
          => MainDepth(docGate(documentId, now)) < MaxDepth
    /\ DocSettle(documentId,
                 finalizeCommit(docGate(documentId, now),
                                instancesByDocumentId[documentId].currentThread,
                                message, now),
                 "finalizeCommit", message, now)

NextLibrary ==
    \/ \E documentId \in DocumentIds : GetInstance(documentId)
    \/ \E documentId \in DocumentIds, now \in Seconds :
          DocEnsureDraftReady(documentId, now)
    \/ \E documentId \in DocumentIds, content \in Contents, metadata \in NoMetadata,
          now \in Seconds : DocUpdateDraft(documentId, content, metadata, now)
    \/ \E documentId \in DocumentIds, message \in DocMessages, now \in Seconds :
          DocFinalizeCommit(documentId, message, now)

SpecLibrary == Init /\ [][NextLibrary]_vars

\* ------------------------------------------- concurrent first calls (N callers)
\* mutant: no memoized init promise, every call on an unready session starts a
\* bootstrap of its own
EnsureDraftReadyCallNoMemo(p) ==
    /\ pc[p] = "idle"
    /\ IF draftReady
       THEN /\ pc' = [pc EXCEPT ![p] = "resolved"]
            /\ UNCHANGED <<initPromise, bootstraps>>
       ELSE /\ pc' = [pc EXCEPT ![p] = "awaiting"]
            /\ initPromise' = IF initPromise \in {"none", "pending"} THEN "pending"
                              ELSE initPromise
            /\ bootstraps' = IF initPromise \in {"none", "pending"} THEN bootstraps + 1
                             ELSE bootstraps
    /\ UNCHANGED <<refs, draftReady, currentThread, clock, last>>
    /\ UNCHANGED libraryVars
    /\ UNCHANGED inflight
    /\ UNCHANGED head

\* ensureDraftReady called by one of several concurrent callers: the synchronous
\* part up to `await initPromise`
EnsureDraftReadyCall(p) ==
    /\ pc[p] = "idle"
    /\ IF draftReady
       THEN /\ pc' = [pc EXCEPT ![p] = "resolved"]
            /\ UNCHANGED <<initPromise, bootstraps>>
       ELSE /\ pc' = [pc EXCEPT ![p] = "awaiting"]
            /\ initPromise' = IF initPromise = "none" THEN "pending" ELSE initPromise
            /\ bootstraps' = IF initPromise = "none" THEN bootstraps + 1 ELSE bootstraps
    /\ UNCHANGED <<refs, draftReady, currentThread, clock, last>>
    /\ UNCHANGED libraryVars
    /\ UNCHANGED inflight
    /\ UNCHANGED head

\* the bootstrap started by EnsureDraftReadyCall runs to its end
BootstrapComplete(now) ==
    /\ now \in Seconds
    /\ initPromise = "pending"
    /\ refs' = doEnsureDraftReady(refs, now)
    /\ clock' = IF refs' = refs THEN clock ELSE now
    /\ draftReady' = TRUE
    /\ initPromise' = "fulfilled"
    /\ last' = Last("bootstrap", "", "ok", <<>>, NoError)
    /\ head' = DRAFT_BRANCH
    /\ UNCHANGED <<currentThread, bootstraps, pc>>
    /\ UNCHANGED libraryVars
    /\ UNCHANGED inflight

\* the bootstrap started by EnsureDraftReadyCall dies of a storage failure
BootstrapFail(stage, now) ==
    /\ now \in Seconds
    /\ initPromise = "pending"
    /\ refs' = partialBootstrap(refs, now, stage)
    /\ clock' = IF refs' = refs THEN clock ELSE now
    /\ initPromise' = "rejected"
    /\ last' = Last("bootstrap", stage, "InitFailed", <<>>, InitError)
    /\ head' = partialCheckout(head, stage)
    /\ UNCHANGED <<draftReady, currentThread, bootstraps, pc>>
    /\ UNCHANGED libraryVars
    /\ UNCHANGED inflight

\* `await initPromise` returns or throws in a waiting caller
CallerResume(p) ==
    /\ pc[p] = "awaiting"
    /\ initPromise \in {"fulfilled", "rejected"}
    /\ pc' = [pc EXCEPT ![p] = IF initPromise = "fulfilled" THEN "resolved" ELSE "rejected"]
    /\ UNCHANGED <<refs, draftReady, currentThread, initPromise, bootstraps, clock, last>>
    /\ UNCHANGED libraryVars
    /\ UNCHANGED inflight
    /\ UNCHANGED head

\* the caller's promise has settled; it may call again
CallerReturn(p) ==
    /\ pc[p] \in {"resolved", "rejected"}
    /\ pc' = [pc EXCEPT ![p] = "idle"]
    /\ UNCHANGED <<refs, draftReady, currentThread, initPromise, bootstraps, clock, last>>
    /\ UNCHANGED libraryVars
    /\ UNCHANGED inflight
    /\ UNCHANGED head

NextConcurrent ==
    \/ \E p \in Callers : EnsureDraftReadyCall(p)
    \/ \E now \in Seconds : BootstrapComplete(now)
    \/ \E stage \in BootstrapStages, now \in Seconds : BootstrapFail(stage, now)
    \/ \E p \in Callers : CallerResume(p)
    \/ \E p \in Callers : CallerReturn(p)
    \/ \E content \in SnapshotContents, message \in SnapshotMessages, now \in Seconds :
          SaveSnapshot(content, message, now)
    \/ Restart

SpecConcurrent == Init /\ [][NextConcurrent]_vars

\* ------------------------- an autosave and a finalize that are not awaited
\* The UI calls updateDraft on every keystroke without awaiting it, so a
\* finalizeCommit can start while an updateDraft is suspended at one of its
\* awaits, and the other way round. Each action below is the code between two
\* awaits of one of the two calls, on a Ready session.
Quiet == inflight = Idle

raceFrame == <<draftReady, currentThread, initPromise, bootstraps, pc, last>>

\* both calls are made; each runs up to `await this.ensureDraftReady()`
RaceStart(content, message) ==
    /\ Quiet
    /\ draftReady
    /\ inflight' = [Idle EXCEPT !.updateDraft = "called", !.finalizeCommit = "called",
                                !.content = content, !.message = message]
    /\ UNCHANGED <<refs, clock, head>>
    /\ UNCHANGED raceFrame
    /\ UNCHANGED libraryVars

\* updateDraft: writeFile(content.md) and git.add put the text in the index
UpdateDraftStage ==
    /\ inflight.updateDraft = "called"
    /\ inflight' = [inflight EXCEPT !.updateDraft = "staged",
                                    !.index = contentToWrite(inflight.content, Undefined)]
    /\ UNCHANGED <<refs, clock, head>>
    /\ UNCHANGED raceFrame
    /\ UNCHANGED libraryVars

\* updateDraft: git.commit({ref: draft, amend: true}) commits the index on the
\* parent of the commit draft points to now
UpdateDraftAmend(now) ==
    /\ now \in Seconds
    /\ inflight.updateDraft = "staged"
    /\ refs' = commitOn(refs, DRAFT_BRANCH, refs[DRAFT_BRANCH].parent, inflight.index,
                        DRAFT_MESSAGE, now)
    /\ clock' = now
    /\ inflight' = [inflight EXCEPT !.updateDraft = "done"]
    /\ UNCHANGED head
    /\ UNCHANGED raceFrame
    /\ UNCHANGED libraryVars

\* finalizeCommit: resolveRef(main), resolveRef(draft), readCommit, staleness guard
FinalizeCommitResolve ==
    /\ inflight.finalizeCommit = "called"
    /\ inflight' = [inflight EXCEPT
                       !.finalizeCommit = IF refs[DRAFT_BRANCH].parent # <<refs[MAIN_BRANCH]>>
                                          THEN "conflict" ELSE "resolved",
                       !.mainOid = <<refs[MAIN_BRANCH]>>,
                       !.draftCommit = <<refs[DRAFT_BRANCH]>>]
    /\ UNCHANGED <<refs, clock, head>>
    /\ UNCHANGED raceFrame
    /\ UNCHANGED libraryVars

\* finalizeCommit: git.commit on main with the tree read from draft's commit
FinalizeCommitSquash(now) ==
    /\ now \in Seconds
    /\ inflight.finalizeCommit = "resolved"
    /\ MainDepth(refs) < MaxDepth
    /\ LET newOid == Commit(inflight.mainOid, inflight.draftCommit[1].tree,
                            inflight.message, now)
       IN  /\ refs' = writeRef(refs, MAIN_BRANCH, newOid)
           /\ inflight' = [inflight EXCEPT !.finalizeCommit = "squashed",
                                           !.newOid = <<newOid>>]
    /\ clock' = now
    /\ UNCHANGED head
    /\ UNCHANGED raceFrame
    /\ UNCHANGED libraryVars

\* finalizeCommit: git.writeRef(draft, newOid, force) and the flush
FinalizeCommitRepoint ==
    /\ inflight.finalizeCommit = "squashed"
    /\ refs' = writeRef(refs, DRAFT_BRANCH, inflight.newOid[1])
    /\ inflight' = [inflight EXCEPT !.finalizeCommit = "repointed"]
    /\ UNCHANGED <<clock, head>>
    /\ UNCHANGED raceFrame
    /\ UNCHANGED libraryVars

\* finalizeCommit: git.checkout(draft); whether it replaces a text staged by
\* the other call is left open
FinalizeCommitCheckout(keepIndex) ==
    /\ inflight.finalizeCommit = "repointed"
    /\ head' = DRAFT_BRANCH
    /\ inflight' = [inflight EXCEPT
                       !.finalizeCommit = "done",
                       !.index = IF keepIndex THEN inflight.index
                                 ELSE refs[DRAFT_BRANCH].tree]
    /\ UNCHANGED <<refs, clock>>
    /\ UNCHANGED raceFrame
    /\ UNCHANGED libraryVars

RaceComplete ==
    /\ inflight.updateDraft = "done"
    /\ inflight.finalizeCommit \in {"done", "conflict"}

\* both promises have settled
RaceReturn ==
    /\ RaceComplete
    /\ inflight' = Idle
    /\ last' = IF inflight.finalizeCommit = "done"
               THEN Last("finalizeCommit", inflight.message, "ok", inflight.newOid, NoError)
               ELSE Last("finalizeCommit", inflight.message, "Conflict", <<>>,
                         [name |-> "DraftConflictError", message |-> ConflictMessage])
    /\ UNCHANGED <<refs, draftReady, currentThread, initPromise, bootstraps, pc, clock, head>>
    /\ UNCHANGED libraryVars

NextRace ==
    \/ \E now \in Seconds : Quiet /\ EnsureDraftReady(now)
    \/ \E content \in Contents, metadata \in NoMetadata, now \in Seconds :
          Quiet /\ UpdateDraft(content, metadata, now)
    \/ \E content \in Contents, message \in Messages : RaceStart(content, message)
    \/ UpdateDraftStage
    \/ \E now \in Seconds : UpdateDraftAmend(now)
    \/ FinalizeCommitResolve
    \/ \E now \in Seconds : FinalizeCommitSquash(now)
    \/ FinalizeCommitRepoint
    \/ \E keepIndex \in BOOLEAN : FinalizeCommitCheckout(keepIndex)
    \/ RaceReturn

SpecRace == Init /\ [][NextRace]_vars

\* ------------------------------------------------------------------- claims
Ready == draftReady

draftParent(r) == r[DRAFT_BRANCH].parent

baseHead(r, thread) == r[baseRef(thread)]

\* C1: whenever the session is Ready, the recorded parent of draft's head is the
\* head of the selected base ref (main or the active thread), except in the
\* state right after a finalizeCommit.
C1_DraftOneAheadOfBase ==
    (Ready /\ last.op # "finalizeCommit") =>
        /\ baseRef(currentThread) \in listBranches(refs)
        /\ draftParent(refs) = <<baseHead(refs, currentThread)>>

\* the refs an operation reads once it is past `await this.ensureDraftReady()`
atCall(now) == gate(refs, now)

Succeeded(op) == last.op = op /\ last.outcome = "ok"

\* C2: N concurrent first calls of ensureDraftReady start exactly one bootstrap
\* (#doEnsureDraftReady), and every one of them resolves successfully once that
\* bootstrap has completed: none is rejected, none resolves before it.
C2_OneBootstrapForAllCallers ==
    /\ bootstraps <= 1
    /\ (\E p \in Callers : pc[p] # "idle") => bootstraps = 1
    /\ \A p \in Callers : pc[p] = "resolved" => (draftReady /\ initPromise = "fulfilled")
    /\ initPromise = "fulfilled" => \A p \in Callers : pc[p] # "rejected"

\* every caller called before the bootstrap completed, and it has completed
C2_Witness ==
    /\ initPromise = "fulfilled"
    /\ bootstraps = 1
    /\ \A p \in Callers : pc[p] = "awaiting"

\* what C3 says of a finalizeCommit(m) step, the newness of the commit aside
C3_Core(m, now) ==
    /\ (last'.outcome = "ok") <=> (draftParent(atCall(now)) = <<atCall(now)[MAIN_BRANCH]>>)
    /\ last'.outcome = "ok" =>
          /\ refs'[MAIN_BRANCH].parent = <<atCall(now)[MAIN_BRANCH]>>
          /\ refs'[MAIN_BRANCH].tree = atCall(now)[DRAFT_BRANCH].tree
          /\ refs'[MAIN_BRANCH].message = m
          /\ last'.ret = <<refs'[MAIN_BRANCH]>>
          /\ commits(refs') \subseteq commits(atCall(now)) \cup {refs'[MAIN_BRANCH]}

C4_FinalizeOnSelectedBase ==
    Succeeded("finalizeCommit") => <<baseHead(refs, currentThread)>> = last.ret

\* C5: after a successful finalizeCommit(message), getHistory() (on the selected
\* base ref) has an entry with that message, whatever the message and thread.
C5_HistoryHasFinalizedMessage ==
    Succeeded("finalizeCommit") =>
        \E i \in DOMAIN getHistory(refs, currentThread) :
            getHistory(refs, currentThread)[i].message = last.arg

\* C6: when draft's recorded parent differs from main's head (main was advanced
\* out-of-band after the bootstrap), finalizeCommit fails with Conflict and
\* writes nothing: main, draft, the thread refs and the selected thread stay.
C6_ConflictWritesNothing ==
    [][\A m \in Messages, now \in Seconds :
          (last'.op = "finalizeCommit" /\ FinalizeCommit(m, now)
             /\ Ready /\ draftParent(refs) # <<refs[MAIN_BRANCH]>>) =>
              /\ last'.outcome = "Conflict"
              /\ last'.error.name = "DraftConflictError"
              /\ refs' = refs
              /\ currentThread' = currentThread]_vars

\* main has been advanced by another writer, and finalizeCommit has failed on it
C6_Witness ==
    /\ last.op = "finalizeCommit"
    /\ last.outcome = "Conflict"
    /\ refs[MAIN_BRANCH].message \in SnapshotMessages
    /\ draftParent(refs) = refs[MAIN_BRANCH].parent

\* C7: the Conflict raised by finalizeCommit carries the caller's message, main's
\* head, draft's head and draft's recorded parent.
C7_ConflictCarriesDetails ==
    last.outcome = "Conflict" =>
        /\ {"mainOid", "draftOid", "draftParent"} \subseteq DOMAIN last.error
        /\ last.error.message = last.arg

\* C8: an updateDraft never increases the number of commits reachable from
\* draft: it replaces draft's head commit in place (the new tree, the same
\* parent), so K calls in a row leave the count where it was.
C8_AmendOnly ==
    [][\A c \in Contents, now \in Seconds :
          (last'.op = "updateDraft" /\ UpdateDraft(c, Undefined, now)) =>
          /\ Depth(refs'[DRAFT_BRANCH]) = Depth(atCall(now)[DRAFT_BRANCH])
          /\ draftParent(refs') = draftParent(atCall(now))
          /\ refs'[DRAFT_BRANCH].tree = c
          /\ refs'[DRAFT_BRANCH].message = DRAFT_MESSAGE]_vars

C8_Witness ==
    /\ Succeeded("updateDraft")
    /\ last.arg = <<<<"x">>, Undefined>>
    /\ refs[DRAFT_BRANCH].tree = <<"x">>
    /\ Depth(refs[DRAFT_BRANCH]) = 2

\* C9: right after the bootstrap, whatever the persisted state it started from,
\* main has a commit, draft exists, and draft's recorded parent is main's head.
C9_BootstrapAligns ==
    (Succeeded("ensureDraftReady") /\ last.arg = "bootstrap") =>
        /\ Ready
        /\ {MAIN_BRANCH, DRAFT_BRANCH} \subseteq listBranches(refs)
        /\ Depth(refs[MAIN_BRANCH]) >= 1
        /\ draftParent(refs) = <<refs[MAIN_BRANCH]>>

\* a bootstrap over a repository whose main another writer had advanced
C9_Witness ==
    /\ Succeeded("ensureDraftReady")
    /\ last.arg = "bootstrap"
    /\ refs[MAIN_BRANCH].message \in SnapshotMessages
    /\ Depth(refs[MAIN_BRANCH]) = 2
    /\ refs[MAIN_BRANCH].parent[1].message = INITIAL_MESSAGE
    /\ refs[DRAFT_BRANCH].tree = refs[MAIN_BRANCH].tree

\* C10: right after a successful switchThread(name), draft's recorded parent is
\* the head of branch name.
C10_SwitchAlignsDraft ==
    Succeeded("switchThread") => draftParent(refs) = <<refs[last.arg]>>

\* the state the end-to-end scenario ends in: an empty repository, then
\* ensureDraftReady(), updateDraft("# Hello", {title: "A"}), finalizeCommit("first")
C11_Scenario ==
    /\ Succeeded("finalizeCommit")
    /\ last.arg = "first"
    /\ currentThread = "main"
    /\ listBranches(refs) = {MAIN_BRANCH, DRAFT_BRANCH}
    /\ refs[MAIN_BRANCH].tree = contentToWrite(<<"# Hello">>, <<<<<<"title", "A">>>>>>)
    /\ refs[MAIN_BRANCH].parent = <<Commit(<<>>, <<>>, INITIAL_MESSAGE,
                                           refs[MAIN_BRANCH].parent[1].timestamp)>>

\* C11: at the end of that scenario finalizeCommit has returned a commit id,
\* getHistory() returns exactly one entry, with message "first", and
\* loadDocument() returns content "# Hello" and metadata {title: "A"}.
C11_EndToEnd ==
    C11_Scenario =>
        /\ last.ret = <<refs[MAIN_BRANCH]>>
        /\ Len(getHistory(refs, currentThread)) = 1
        /\ getHistory(refs, currentThread)[1].message = "first"
        /\ loadDocument(refs, currentThread) =
              [content |-> <<"# Hello">>, metadata |-> <<<<"title", "A">>>>]

\* C12: loadDocument returns draft's parsed content and metadata iff the draft
\* ref exists and its committer timestamp T2 is >= the selected base's T1 (0 for
\* a missing base); otherwise the base's; with neither ref, the empty document.
C12_LoadRecency ==
    last.op = "loadDocument" =>
        LET base == baseRef(currentThread)
            hasBase == base \in listBranches(refs)
            hasDraft == DRAFT_BRANCH \in listBranches(refs)
            T1 == IF hasBase THEN refs[base].timestamp ELSE 0
            T2 == IF hasDraft THEN refs[DRAFT_BRANCH].timestamp ELSE 0
        IN  /\ last.outcome = "ok"
            /\ (hasDraft /\ T2 >= T1) =>
                  last.ret = <<parseDocument(refs[DRAFT_BRANCH].tree)>>
            /\ (~(hasDraft /\ T2 >= T1) /\ hasBase) =>
                  last.ret = <<parseDocument(refs[base].tree)>>
            /\ (~hasDraft /\ ~hasBase) =>
                  last.ret = <<[content |-> <<>>, metadata |-> <<>>]>>

\* a load that found the base newer than the draft and returned the base's document
C12_Witness ==
    /\ Succeeded("loadDocument")
    /\ {baseRef(currentThread), DRAFT_BRANCH} \subseteq listBranches(refs)
    /\ refs[DRAFT_BRANCH].timestamp < refs[baseRef(currentThread)].timestamp
    /\ last.ret = <<parseDocument(refs[baseRef(currentThread)].tree)>>
    /\ last.ret # <<parseDocument(refs[DRAFT_BRANCH].tree)>>
    /\ last.ret[1].metadata # <<>>

\* C13: createThread("feature"), switchThread("feature"), updateDraft(x),
\* switchThread("main"), loadDocument() returns main's head content, not x:
\* switching discards the unfinalized draft of the thread that was active.
C13_SwitchDiscardsDraft ==
    [][\A now \in Seconds :
          (last'.op = "switchThread" /\ SwitchThread("main", now)
             /\ Ready /\ currentThread = "feature" /\ last'.outcome = "ok") =>
              /\ refs'[MAIN_BRANCH] = refs[MAIN_BRANCH]
              /\ loadDocument(refs', currentThread') = parseDocument(refs[MAIN_BRANCH].tree)
              /\ parseDocument(refs[DRAFT_BRANCH].tree) # parseDocument(refs[MAIN_BRANCH].tree)
                    => loadDocument(refs', currentThread')
                          # parseDocument(refs[DRAFT_BRANCH].tree)]_vars

\* back on main after a thread was created and selected; main has content
C13_Witness ==
    /\ Succeeded("switchThread")
    /\ last.arg = "main"
    /\ "feature" \in listBranches(refs)
    /\ refs[MAIN_BRANCH].tree # <<>>
    /\ loadDocument(refs, currentThread) = parseDocument(refs[MAIN_BRANCH].tree)

\* C14: deleteThread("main") and deleteThread("draft") fail with ProtectedThread
\* before any substrate access, in every session state, Uninitialized included:
\* no bootstrap starts, no ref changes, readiness and selection stay.
C14_ProtectedDeletion ==
    [][\A name \in {"main", DRAFT_BRANCH}, now \in Seconds :
          (last'.op = "deleteThread" /\ DeleteThread(name, now)) =>
              /\ last'.outcome = "ProtectedThread"
              /\ UNCHANGED <<refs, draftReady, currentThread, initPromise, bootstraps>>]_vars

\* a protected deletion refused on a session that never bootstrapped
C14_Witness ==
    /\ last.op = "deleteThread"
    /\ last.outcome = "ProtectedThread"
    /\ last.arg = DRAFT_BRANCH
    /\ ~draftReady
    /\ initPromise = "none"
    /\ bootstraps = 0
    /\ listBranches(refs) = {}

C16_HistoryIsFinalizedOnly ==
    Ready =>
        /\ \A i \in DOMAIN getHistory(refs, currentThread) :
               getHistory(refs, currentThread)[i].message
                   \notin {INITIAL_MESSAGE, DRAFT_MESSAGE}
        /\ (Succeeded("finalizeCommit") /\ currentThread = "main" /\ last.arg # DRAFT_MESSAGE)
               => getHistory(refs, currentThread)[1].sha = last.ret[1]

\* C17: createThread(name) fails with AlreadyExists whenever name already names
\* a branch (main and draft included), and then changes no ref and no session
\* state: the repository and the selection are as the readiness gate left them.
C17_CreateExistingFails ==
    [][\A name \in ThreadNames, now \in Seconds :
          (last'.op = "createThread" /\ CreateThread(name, now)
             /\ name \in listBranches(atCall(now))) =>
              /\ last'.outcome = "AlreadyExists"
              /\ refs' = atCall(now)
              /\ currentThread' = currentThread]_vars

\* createThread refused for a reserved name
C17_Witness ==
    /\ last.op = "createThread"
    /\ last.outcome = "AlreadyExists"
    /\ last.arg = DRAFT_BRANCH
    /\ refs[DRAFT_BRANCH].parent = <<refs[MAIN_BRANCH]>>

\* C18: switchThread(name) fails with NotFound whenever name is not an existing
\* branch, and then draft, every other ref and the selected thread are unchanged.
C18_SwitchMissingFails ==
    [][\A name \in ThreadNames, now \in Seconds :
          (last'.op = "switchThread" /\ SwitchThread(name, now)
             /\ name \notin listBranches(atCall(now))) =>
              /\ last'.outcome = "NotFound"
              /\ refs' = atCall(now)
              /\ currentThread' = currentThread]_vars

\* switchThread refused for a thread that does not exist
C18_Witness ==
    /\ last.op = "switchThread"
    /\ last.outcome = "NotFound"
    /\ last.arg = "feature"
    /\ "feature" \notin listBranches(refs)
    /\ currentThread = "main"

\* C19: deleteThread(name) of the selected thread deletes the branch, selects
\* main and repoints draft to main's head; were main absent, the failure is
\* swallowed, the call still succeeds and draft stays as it was.
C19_DeleteSelectedThread ==
    [][\A name \in ThreadNames \ {"main", DRAFT_BRANCH}, now \in Seconds :
          (last'.op = "deleteThread" /\ DeleteThread(name, now)
             /\ currentThread = name /\ name \in listBranches(atCall(now))) =>
              /\ last'.outcome = "ok"
              /\ listBranches(refs') = listBranches(atCall(now)) \ {name}
              /\ currentThread' = "main"
              /\ refs'[MAIN_BRANCH] = atCall(now)[MAIN_BRANCH]
              /\ refs'[DRAFT_BRANCH] = atCall(now)[MAIN_BRANCH]
              /\ LET noMain == deleteBranch(atCall(now), MAIN_BRANCH)
                 IN  deleteThread(noMain, name, name) =
                        Result(deleteBranch(noMain, name), "main", "ok", <<>>, NoError)]_vars

\* the selected thread has been deleted: main is selected and draft is at main
C19_Witness ==
    /\ Succeeded("deleteThread")
    /\ last.arg = "feature"
    /\ "feature" \notin listBranches(refs)
    /\ currentThread = "main"
    /\ refs[DRAFT_BRANCH] = refs[MAIN_BRANCH]
    /\ Depth(refs[MAIN_BRANCH]) = 1

\* the document the last operation was called on
lastDocument == last.arg[1]

\* C20: distinct document identifiers are fully independent: an operation on
\* the controller of document A leaves the refs, the readiness flag, the init
\* lock and the selected thread of every other document B unchanged, and
\* getInstance keeps one controller per identifier.
C20_DocumentsIndependent ==
    [][\A B \in DocumentIds :
          B # lastDocument' =>
              /\ stores'[storeOf(B)] = stores[storeOf(B)]
              /\ B \in DOMAIN instancesByDocumentId
                    => /\ B \in DOMAIN instancesByDocumentId'
                       /\ instancesByDocumentId'[B] = instancesByDocumentId[B]
              /\ B \in DOMAIN initPromisesByDocumentId
                    => /\ B \in DOMAIN initPromisesByDocumentId'
                       /\ initPromisesByDocumentId'[B] = initPromisesByDocumentId[B]]_vars

\* C21: the mapping from document identifier to storage namespace is one-to-one:
\* two distinct identifiers whose controllers exist never name the same store.
C21_StoreNamesDistinct ==
    \A A \in DOMAIN instancesByDocumentId, B \in DOMAIN instancesByDocumentId :
        A # B => getIndexedDBNameForDocument(A) # getIndexedDBNameForDocument(B)

\* C22: for every metadata object m and content c, parseDocument(
\* stringifyDocument(m, c)) reproduces m and c; with empty metadata the text
\* still starts with the delimiter pair "---\n---".
C22_RoundTrip ==
    /\ last.op = "parseDocument" =>
          last.ret = <<[metadata |-> last.arg[1], content |-> last.arg[2]]>>
    /\ (last.op = "stringifyDocument" /\ last.arg[1] = <<>>) =>
          SubSeq(last.ret[1], 1, 3) = <<"---", "\n", "---">>

\* C23: right after a successful finalizeCommit, draft points to the very commit
\* that is main's new head (zero commits ahead of it), the parent recorded in
\* that commit is main's previous head, and draft is the branch checked out.
C23_DraftAtNewMainHead ==
    [][\A m \in Messages, now \in Seconds :
          (last'.op = "finalizeCommit" /\ FinalizeCommit(m, now) /\ last'.outcome = "ok") =>
          /\ refs'[DRAFT_BRANCH] = refs'[MAIN_BRANCH]
          /\ <<refs'[DRAFT_BRANCH]>> = last'.ret
          /\ refs'[MAIN_BRANCH] # atCall(now)[MAIN_BRANCH]
          /\ draftParent(refs') = <<atCall(now)[MAIN_BRANCH]>>
          /\ head' = DRAFT_BRANCH]_vars

C23_Witness ==
    /\ Succeeded("finalizeCommit")
    /\ refs[DRAFT_BRANCH] = refs[MAIN_BRANCH]
    /\ draftParent(refs) = <<InitialCommit>>
    /\ head = DRAFT_BRANCH

\* C24: with nothing else writing to the repository, in any sequence of
\* updateDraft and finalizeCommit calls after the bootstrap (finalize,
\* updateDraft, finalize, say) every finalizeCommit succeeds.
C24_EveryFinalizeSucceeds ==
    last.op = "finalizeCommit" => last.outcome = "ok"

\* C25: when main has moved only by the document's own finalizeCommit, the
\* bootstrap of a fresh session keeps the autosaved work: draft's tree after the
\* bootstrap is its tree before it.
C25_BootstrapKeepsAutosave ==
    [][\A now \in Seconds :
          (/\ last'.op \in {"ensureDraftReady", "loadDocument"}
           /\ EnsureDraftReady(now) \/ LoadDocument(now)
           /\ ~draftReady
           /\ DRAFT_BRANCH \in listBranches(refs)) =>
          refs'[DRAFT_BRANCH].tree = refs[DRAFT_BRANCH].tree]_vars

\* C26: a bootstrap that finds a draft whose recorded parent is not main's head
\* resets draft to a commit it creates (parent main's head, tree main's tree);
\* main and every thread ref are unchanged.
C26_BootstrapResetsStaleDraft ==
    [][\A now \in Seconds :
          (/\ last'.op = "ensureDraftReady"
           /\ EnsureDraftReady(now)
           /\ ~draftReady
           /\ DRAFT_BRANCH \in listBranches(refs)
           /\ draftParent(refs) # <<refs[MAIN_BRANCH]>>) =>
          /\ refs'[DRAFT_BRANCH] =
                Commit(<<refs[MAIN_BRANCH]>>, refs[MAIN_BRANCH].tree, DRAFT_MESSAGE, now)
          /\ refs'[DRAFT_BRANCH] # refs[DRAFT_BRANCH]
          /\ listBranches(refs') = listBranches(refs)
          /\ \A n \in listBranches(refs) \ {DRAFT_BRANCH} : refs'[n] = refs[n]]_vars

C26_Witness ==
    /\ last.op = "ensureDraftReady" /\ last.arg = "bootstrap"
    /\ "feature" \in listBranches(refs)
    /\ Depth(refs[MAIN_BRANCH]) = 2
    /\ refs[MAIN_BRANCH].tree = <<"x">>
    /\ refs[DRAFT_BRANCH] = Commit(<<refs[MAIN_BRANCH]>>, <<"x">>, DRAFT_MESSAGE, 1)

\* C27: a successful createThread(name) creates the branch name at draft's head
\* and changes nothing else: main, draft, the other threads and the selected
\* thread are as before.
C27_CreateThreadOnlyAddsBranch ==
    [][\A name \in ThreadNames, now \in Seconds :
          (last'.op = "createThread" /\ CreateThread(name, now) /\ last'.outcome = "ok") =>
          /\ name \notin listBranches(atCall(now))
          /\ listBranches(refs') = listBranches(atCall(now)) \cup {name}
          /\ refs'[name] = atCall(now)[DRAFT_BRANCH]
          /\ \A n \in listBranches(atCall(now)) : refs'[n] = atCall(now)[n]
          /\ currentThread' = currentThread
          /\ draftReady' = TRUE]_vars

C27_Witness ==
    /\ Succeeded("createThread")
    /\ last.arg = "feature"
    /\ refs["feature"] = refs[DRAFT_BRANCH]
    /\ refs[DRAFT_BRANCH].tree = <<"x">>
    /\ refs[MAIN_BRANCH].tree = <<>>
    /\ currentThread = "main"

\* C28: a successful switchThread(name) sets draft to exactly the head of name
\* and the selected thread to name; main and every thread ref are unchanged.
C28_SwitchThreadOnlyMovesDraft ==
    [][\A name \in ThreadNames, now \in Seconds :
          (last'.op = "switchThread" /\ SwitchThread(name, now) /\ last'.outcome = "ok") =>
          /\ name \in listBranches(atCall(now))
          /\ refs'[DRAFT_BRANCH] = atCall(now)[name]
          /\ currentThread' = name
          /\ listBranches(refs') = listBranches(atCall(now))
          /\ \A n \in listBranches(atCall(now)) \ {DRAFT_BRANCH} : refs'[n] = atCall(now)[n]]_vars

C28_Witness ==
    /\ Succeeded("switchThread")
    /\ last.arg = "feature"
    /\ currentThread = "feature"
    /\ refs[DRAFT_BRANCH] = refs["feature"]
    /\ refs["feature"] # refs[MAIN_BRANCH]
    /\ Depth(refs[MAIN_BRANCH]) = 2

\* C29: deleteThread of a name that does not exist changes nothing; deleteThread
\* of an existing thread that is not the selected one removes that branch only:
\* draft, main, the other threads and the selection are unchanged.
C29_DeleteThreadOnlyRemovesBranch ==
    [][\A name \in ThreadNames \ {MAIN_BRANCH, DRAFT_BRANCH}, now \in Seconds :
          (last'.op = "deleteThread" /\ DeleteThread(name, now) /\ currentThread # name) =>
          /\ last'.outcome = "ok"
          /\ listBranches(refs') = listBranches(atCall(now)) \ {name}
          /\ \A n \in listBranches(refs') : refs'[n] = atCall(now)[n]
          /\ name \notin listBranches(atCall(now)) => refs' = atCall(now)
          /\ currentThread' = currentThread]_vars

C29_Witness ==
    /\ Succeeded("deleteThread")
    /\ last.arg = "feature"
    /\ "feature" \notin listBranches(refs)
    /\ currentThread = "main"
    /\ draftParent(refs) = <<refs[MAIN_BRANCH]>>
    /\ refs[DRAFT_BRANCH].tree = <<"x">>
    /\ Depth(refs[MAIN_BRANCH]) = 2

\* C30: updateDraft changes the draft ref only: main, the thread refs, the
\* selected thread and the readiness flag are unchanged, also right after a
\* finalizeCommit, when draft and main point to the same commit.
C30_UpdateDraftOnlyMovesDraft ==
    [][\A content \in Contents, metadata \in NoMetadata, now \in Seconds :
          (last'.op = "updateDraft" /\ UpdateDraft(content, metadata, now)) =>
          /\ last'.outcome = "ok"
          /\ listBranches(refs') = listBranches(atCall(now))
          /\ \A n \in listBranches(atCall(now)) \ {DRAFT_BRANCH} : refs'[n] = atCall(now)[n]
          /\ refs'[DRAFT_BRANCH].tree = content
          /\ currentThread' = currentThread
          /\ draftReady' = TRUE
          /\ draftReady => head' = head]_vars

C30_Witness ==
    /\ Succeeded("updateDraft")
    /\ last.arg = <<<<"x">>, Undefined>>
    /\ Depth(refs[MAIN_BRANCH]) = 2
    /\ refs[MAIN_BRANCH].tree = <<>>
    /\ refs[DRAFT_BRANCH].parent = refs[MAIN_BRANCH].parent
    /\ refs[DRAFT_BRANCH].tree = <<"x">>

\* the commits on the first-parent chain of a commit, itself included
ancestors(oid) == {log(oid)[i] : i \in 1..Len(log(oid))}

\* C31: main's history is append-only under serialized controller operations:
\* the main ref is changed only by the bootstrap's initial commit and by a
\* successful finalizeCommit, and a commit that was main's head stays an
\* ancestor of (or equal to) main's head.
C31_MainAppendOnly ==
    [][/\ MAIN_BRANCH \in listBranches(refs) =>
             /\ MAIN_BRANCH \in listBranches(refs')
             /\ refs[MAIN_BRANCH] \in ancestors(refs'[MAIN_BRANCH])
             /\ refs'[MAIN_BRANCH] # refs[MAIN_BRANCH] =>
                   /\ last'.op = "finalizeCommit" /\ last'.outcome = "ok"
                   /\ refs'[MAIN_BRANCH].parent = <<refs[MAIN_BRANCH]>>
       /\ (MAIN_BRANCH \notin listBranches(refs) /\ MAIN_BRANCH \in listBranches(refs')) =>
             /\ ~draftReady
             /\ \E now \in Seconds :
                   Commit(<<>>, <<>>, INITIAL_MESSAGE, now) \in ancestors(refs'[MAIN_BRANCH])
             /\ Depth(refs'[MAIN_BRANCH]) > 1 =>
                   last'.op = "finalizeCommit" /\ last'.outcome = "ok"]_vars

C31_Witness ==
    /\ Succeeded("finalizeCommit")
    /\ currentThread = "feature"
    /\ Depth(refs[MAIN_BRANCH]) = 2
    /\ refs[MAIN_BRANCH].parent = <<InitialCommit>>
    /\ refs[MAIN_BRANCH].tree = <<"x">>

\* C32: in every Ready state reached through controller operations both
\* reserved refs, main and draft, exist, and listThreads/getThreads return both
\* names; no thread operation deletes or recreates them.
C32_ReservedRefsExist ==
    /\ [](/\ Ready => {MAIN_BRANCH, DRAFT_BRANCH} \subseteq listBranches(refs)
          /\ Succeeded("getThreads") => {MAIN_BRANCH, DRAFT_BRANCH} \subseteq last.ret[1])
    /\ [][(/\ last'.op \in {"createThread", "deleteThread"}
            /\ last'.arg \in {MAIN_BRANCH, DRAFT_BRANCH}) =>
           /\ last'.outcome # "ok"
           /\ Ready => refs' = refs]_vars

C32_Witness ==
    /\ Succeeded("getThreads")
    /\ last.ret = <<{MAIN_BRANCH, DRAFT_BRANCH}>>
    /\ currentThread = "main"
    /\ Depth(refs[MAIN_BRANCH]) = 2
    /\ draftParent(refs) = <<refs[MAIN_BRANCH]>>

\* C33: in every reachable state the selected thread is never the reserved name
\* draft and, once the session is Ready, names an existing branch: switchThread
\* cannot select draft as the base.
C33_SelectedThreadIsNotDraft ==
    /\ currentThread # DRAFT_BRANCH
    /\ Ready => currentThread \in listBranches(refs)

\* C34: every public operation, the debug accessor getFsAndDir included, passes
\* the readiness gate before its first substrate access: no call on a session
\* that is not Ready fails with the not-initialized error.
C34_NoNotInitializedError ==
    last.outcome # "NotInitialized"

\* the calls of the step just taken: those of the bootstrap, if the gate ran
\* it, then those of the operation
stepCalls ==
    (IF ~draftReady /\ draftReady' THEN bootstrapCalls(refs) ELSE <<>>)
    \o (CASE last'.op = "finalizeCommit" -> finalizeCommitCalls(last'.outcome)
          [] last'.op = "switchThread" -> switchThreadCalls(last'.outcome)
          [] OTHER -> <<>>)

\* every forced write of draft has a flush between it and the next checkout
flushedBeforeCheckout(calls) ==
    \A i \in 1..Len(calls), j \in 1..Len(calls) :
        (/\ i < j
         /\ calls[i] = "writeRef"
         /\ calls[j] = "checkout"
         /\ \A k \in (i + 1)..(j - 1) : calls[k] # "checkout") =>
        \E k \in (i + 1)..(j - 1) : calls[k] = "flush"

\* C35: in every operation each forced rewrite of the draft ref (creation of
\* the draft branch in the bootstrap, realignment reset, repoint after
\* finalize, repoint by switchThread) is followed by an awaited flush before
\* the checkout of draft that follows it.
C35_FlushBeforeCheckout ==
    [][flushedBeforeCheckout(stepCalls)]_vars

\* C36: ensureDraftReady on a session that is already Ready is a no-op: no
\* substrate access, no ref changed; and the readiness flag of a controller
\* never goes back from Ready.
C36_ReadyCallIsNoOp ==
    [][/\ (draftReady /\ last'.op # "restart") => draftReady'
       /\ \A now \in Seconds :
             (last'.op = "ensureDraftReady" /\ draftReady /\ EnsureDraftReady(now)) =>
             /\ refs' = refs
             /\ stepCalls = <<>>
             /\ last'.outcome = "ok"
             /\ UNCHANGED <<currentThread, initPromise, bootstraps, clock, head>>]_vars

C36_Witness ==
    /\ Succeeded("ensureDraftReady")
    /\ last.arg = "ready"
    /\ Ready
    /\ refs[DRAFT_BRANCH] = refs[MAIN_BRANCH]
    /\ Depth(refs[MAIN_BRANCH]) = 2

\* C37: at most one bootstrap is ever started per document in the life of a
\* process, even when it fails: the rejected init promise is kept, so every
\* later ensureDraftReady and every operation that calls it fails with the same
\* error, no new bootstrap is started and the session never becomes Ready.
C37_FailedBootstrapIsFinal ==
    /\ [](bootstraps <= 1 /\ (initPromise = "rejected" => ~Ready))
    /\ [][(initPromise = "rejected" /\ last'.op # "restart") =>
           /\ initPromise' = "rejected"
           /\ bootstraps' = bootstraps
           /\ ~draftReady'
           /\ refs' = refs
           /\ \/ last'.outcome = "InitFailed" /\ last'.error = InitError
              \/ last'.op = "deleteThread" /\ last'.outcome = "ProtectedThread"]_vars

C37_Witness ==
    /\ last.op = "updateDraft"
    /\ last.outcome = "InitFailed"
    /\ initPromise = "rejected"
    /\ bootstraps = 1
    /\ listBranches(refs) = {MAIN_BRANCH}

\* C38: when an updateDraft(x) and a finalizeCommit on the same document
\* interleave at their suspension points, the autosave is not lost: once both
\* have completed, x is the tracked content of main's head or of draft's head.
C38_RacingAutosaveKept ==
    RaceComplete =>
        contentToWrite(inflight.content, Undefined)
            \in {refs[MAIN_BRANCH].tree, refs[DRAFT_BRANCH].tree}

====
